---- MODULE Spec2Model ----
(***************************************************************************)
(* lazypp: lazy pull sequences (include/lazypp.hpp).                       *)
(*                                                                         *)
(* A chain of iterators is a nested value: every decorator owns its base   *)
(* iterator.  The model keeps the nest as a sequence of layers, chain[1]   *)
(* being the innermost producer and chain[Len(chain)] the iterator held by *)
(* the iterator_wrapper.  std::optional<T> is a sequence of length at most *)
(* one: << >> is the empty optional, <<v>> holds v.  The element type T is *)
(* an unsigned integer of Width bits.                                      *)
(***************************************************************************)
EXTENDS Integers, Sequences, FiniteSets, TLC

\* ---------------------------------------------------------------- bounds
Width == 3
MaxLen == 3
MaxDepth == 2
MaxOrig == 2

Modulus == 2 ^ Width
Val == 0 .. (Modulus - 1)
\* the largest count given to take()
MaxTake == MaxLen
\* direct next() calls a client makes: past the end of the longest sequence
MaxCalls == MaxLen + 1
\* iterations of each() followed: a whole range of the element type, plus the end
MaxEach == Modulus + 1
\* rejected values after which a filter scan over a periodic base is known to
\* reject for ever (the bases of the model have period at most Modulus)
MaxSpin == Modulus + 1

\* chain: the iterator of the newest wrapper; built: that iterator as it was
\* constructed; orig: the iterator of the wrapper the last chain method was
\* called on; out, oout: what next() returned on chain and on orig;
\* delivered: what each() gave its callback; log: the events of chain's calls
VARIABLES chain, built, orig, pc, out, oout, delivered, log

vars == <<chain, built, orig, pc, out, oout, delivered, log>>

\* ------------------------------------------------------- user callables
\* the callables handed to the library: they are template parameters of the
\* source, the model draws them from these small families
MapFuncs == {"inc", "dbl"}
Preds == {"is_even", "is_small"}
GenFuncs == {"one", "counter"}
StepFuncs == {"by2", "stay"}

map_func(f, v) ==
    CASE f = "inc" -> (v + 1) % Modulus
      [] f = "dbl" -> (2 * v) % Modulus

test_func(p, v) ==
    CASE p = "is_even" -> v % 2 = 0
      [] p = "is_small" -> v < 2

\* a generator: the value it returns and the state its closure is left in
gen_func(g, c) ==
    CASE g = "one" -> [val |-> 1, state |-> c]
      [] g = "counter" -> [val |-> c, state |-> (c + 1) % Modulus]

\* a v++ on a type without a largest value
func_next_nowrap(f, a) ==
    CASE f = "inc" -> [val |-> a, pos |-> a + 1]
      [] f = "by2" -> [val |-> a, pos |-> (a + 2) % Modulus]
      [] f = "stay" -> [val |-> a, pos |-> a]

\* step functions that return the position they leave (++v for v++)
func_next_preinc(f, a) ==
    CASE f = "inc" -> [val |-> (a + 1) % Modulus, pos |-> (a + 1) % Modulus]
      [] f = "by2" -> [val |-> (a + 2) % Modulus, pos |-> (a + 2) % Modulus]
      [] f = "stay" -> [val |-> a, pos |-> a]

\* a step function of a range: what it returns and the position it leaves
\* ("inc" is the [](T& v) { return v++; } of range(begin, end))
func_next(f, a) ==
    CASE f = "inc" -> [val |-> a, pos |-> (a + 1) % Modulus]
      [] f = "by2" -> [val |-> a, pos |-> (a + 2) % Modulus]
      [] f = "stay" -> [val |-> a, pos |-> a]

\* an end test that holds from the end on
is_last_ge(end, a) == a >= end

\* the [end](const T& v) { return v == end; } of the convenience ranges
is_last(end, a) == a = end

\* ------------------------------------------------------------ iterators
\* one layer of a chain: the members of the iterator classes
Blank ==
    [kind |-> "none", fn |-> "none", num |-> 0, ended |-> FALSE,
     actual |-> 0, last |-> 0, items |-> <<>>, pos |-> 0]

\* a user-written base iterator: it answers next() from a script of optionals
\* (an empty entry is a call that returns empty before later values) and
\* returns empty once the script is used up
seq_iterator(items) == [Blank EXCEPT !.kind = "seq", !.items = items]

generate_iterator(g) == [Blank EXCEPT !.kind = "generate", !.fn = g]

range_iterator(first, end, f) ==
    [Blank EXCEPT !.kind = "range", !.actual = first, !.last = end, !.fn = f]

map_iterator(f) == [Blank EXCEPT !.kind = "map", !.fn = f]

filter_iterator(p) == [Blank EXCEPT !.kind = "filter", !.fn = p]

take_iterator(n) == [Blank EXCEPT !.kind = "take", !.num = n]

take_while_iterator(p) ==
    [Blank EXCEPT !.kind = "take_while", !.fn = p, !.ended = FALSE]

\* ------------------------------------------------------------ event log
\* what a run did, in order: next() entered on a layer ("next"), next()
\* returning ("ret", with the optional returned), a user callable invoked
\* ("fn": transform, predicate, generator, step; "last": is_last)
Ev(e, i, a) == [ev |-> e, at |-> i, arg |-> a]

Enter(s, i) == [s EXCEPT !.log = Append(@, Ev("next", i, <<>>))]

Invoke(s, e, i, a) == [s EXCEPT !.log = Append(@, Ev(e, i, a))]

Return(s, i, r) == [s EXCEPT !.log = Append(@, Ev("ret", i, r)), !.r = r]

\* the call never returns
Hang(s) == [s EXCEPT !.hung = TRUE]

\* ----------------------------------------------------------------- next
\* s is [chain, log, r, hung]: the chain and log so far, the optional the
\* last call returned and whether a call is stuck in a loop for ever
RECURSIVE next(_, _)

\* auto v = x; ...: x is evaluated once and the rest of the body reads v
Then(x, Body(_)) == CHOOSE y \in {Body(v) : v \in {x}} : TRUE

seq_iterator_next(s, i) ==
    LET it == s.chain[i] IN
    IF it.pos < Len(it.items)
    THEN Return([s EXCEPT !.chain[i].pos = @ + 1], i, it.items[it.pos + 1])
    ELSE Return(s, i, <<>>)

\* a generate that asks the generator whether it has a value, then for it
generate_next_twice(s, i) ==
    LET it == s.chain[i]
        g0 == gen_func(it.fn, it.actual)
        g == gen_func(it.fn, g0.state)
        t == Invoke(s, "fn", i, <<>>)
    IN Return(Invoke([t EXCEPT !.chain[i].actual = g.state], "fn", i, <<>>),
              i, <<g.val>>)

generate_iterator_next(s, i) ==
    LET it == s.chain[i]
        g == gen_func(it.fn, it.actual)
    IN Return(Invoke([s EXCEPT !.chain[i].actual = g.state], "fn", i, <<>>),
              i, <<g.val>>)

\* a range that steps on even when is_last holds
range_next_overstep(s, i) ==
    LET it == s.chain[i]
        t == Invoke(s, "last", i, <<it.actual>>)
        n == func_next(it.fn, it.actual)
        u == Invoke([t EXCEPT !.chain[i].actual = n.pos], "fn", i, <<it.actual>>)
    IN IF is_last(it.last, it.actual) THEN Return(u, i, <<>>)
       ELSE Return(u, i, <<n.val>>)

range_iterator_next(s, i) ==
    LET it == s.chain[i]
        t == Invoke(s, "last", i, <<it.actual>>)
    IN IF is_last(it.last, it.actual)
       THEN Return(t, i, <<>>)
       ELSE LET n == func_next(it.fn, it.actual)
            IN Return(Invoke([t EXCEPT !.chain[i].actual = n.pos],
                             "fn", i, <<it.actual>>),
                      i, <<n.val>>)

\* a map that hands on the base's value without applying the transform
map_next_unapplied(s, i) ==
    Then(next(s, i - 1), LAMBDA v :
        IF v.hung THEN v
        ELSE IF v.r # <<>> THEN Return(Invoke(v, "fn", i, v.r), i, v.r)
             ELSE Return(v, i, <<>>))

map_iterator_next(s, i) ==
    Then(next(s, i - 1), LAMBDA v :
        IF v.hung THEN v
        ELSE IF v.r # <<>>
             THEN Return(Invoke(v, "fn", i, v.r), i,
                         <<map_func(v.chain[i].fn, v.r[1])>>)
             ELSE Return(v, i, <<>>))

\* the loop of filter_iterator::next, given up as endless after fuel rejections
RECURSIVE filter_scan(_, _, _)
filter_scan(s, i, fuel) ==
    IF fuel = 0 THEN Hang(s)
    ELSE Then(next(s, i - 1), LAMBDA v :
        IF v.hung THEN v
        ELSE IF v.r = <<>> THEN Return(v, i, <<>>)
        ELSE IF test_func(v.chain[i].fn, v.r[1])
             THEN Return(Invoke(v, "fn", i, v.r), i, v.r)
             ELSE filter_scan(Invoke(v, "fn", i, v.r), i, fuel - 1))

\* a filter that returns the first value of its base without testing it
filter_next_untested(s, i) ==
    Then(next(s, i - 1), LAMBDA v : IF v.hung THEN v ELSE Return(v, i, v.r))

\* a filter that asks its base once more after the base answered empty
filter_next_repull(s, i) ==
    Then(filter_scan(s, i, MaxSpin), LAMBDA v :
        IF v.hung \/ v.r # <<>> THEN v
        ELSE Then(next(v, i - 1), LAMBDA w :
                IF w.hung THEN w ELSE Return(w, i, <<>>)))

\* a filter that answers empty for a value its predicate rejects
filter_next_giveup(s, i) ==
    Then(next(s, i - 1), LAMBDA v :
        IF v.hung THEN v
        ELSE IF v.r = <<>> THEN Return(v, i, <<>>)
        ELSE IF test_func(v.chain[i].fn, v.r[1])
             THEN Return(Invoke(v, "fn", i, v.r), i, v.r)
             ELSE Return(Invoke(v, "fn", i, v.r), i, <<>>))

filter_iterator_next(s, i) == filter_scan(s, i, MaxSpin)

\* a take that pulls its base before it looks at its count
take_next_overpull(s, i) ==
    Then(next(s, i - 1), LAMBDA v :
        IF v.hung THEN v
        ELSE IF v.chain[i].num # 0
             THEN Return([v EXCEPT !.chain[i].num = @ - 1], i, v.r)
             ELSE Return(v, i, <<>>))

take_iterator_next(s, i) ==
    IF s.chain[i].num # 0
    THEN Then(next([s EXCEPT !.chain[i].num = @ - 1], i - 1), LAMBDA v :
            IF v.hung THEN v ELSE Return(v, i, v.r))
    ELSE Return(s, i, <<>>)

\* a take_while that passes over failing values to the next passing one
take_while_next_skipping(s, i) ==
    IF s.chain[i].ended THEN Return(s, i, <<>>)
    ELSE Then(filter_scan(s, i, MaxSpin), LAMBDA v :
        IF v.hung \/ v.r # <<>> THEN v
        ELSE [v EXCEPT !.chain[i].ended = TRUE])

\* a take_while that ends on the failing value but still returns it
take_while_next_inclusive(s, i) ==
    IF s.chain[i].ended THEN Return(s, i, <<>>)
    ELSE Then(next(s, i - 1), LAMBDA v :
        IF v.hung THEN v
        ELSE IF v.r = <<>>
             THEN Return([v EXCEPT !.chain[i].ended = TRUE], i, <<>>)
        ELSE IF test_func(v.chain[i].fn, v.r[1])
             THEN Return(Invoke(v, "fn", i, v.r), i, v.r)
             ELSE Return([Invoke(v, "fn", i, v.r)
                             EXCEPT !.chain[i].ended = TRUE], i, v.r))

\* a take_while without the ended flag: it tests whatever the base gives next
take_while_next_unflagged(s, i) ==
    Then(next(s, i - 1), LAMBDA v :
        IF v.hung THEN v
        ELSE IF v.r = <<>> THEN Return(v, i, <<>>)
        ELSE IF test_func(v.chain[i].fn, v.r[1])
             THEN Return(Invoke(v, "fn", i, v.r), i, v.r)
             ELSE Return(Invoke(v, "fn", i, v.r), i, <<>>))

take_while_iterator_next(s, i) ==
    IF s.chain[i].ended THEN Return(s, i, <<>>)
    ELSE Then(next(s, i - 1), LAMBDA v :
        IF v.hung THEN v
        ELSE IF v.r = <<>>
             THEN Return([v EXCEPT !.chain[i].ended = TRUE], i, <<>>)
        ELSE IF test_func(v.chain[i].fn, v.r[1])
             THEN Return(Invoke(v, "fn", i, v.r), i, v.r)
             ELSE Return([Invoke(v, "fn", i, v.r)
                             EXCEPT !.chain[i].ended = TRUE], i, <<>>))

\* base_.next(): the call is bound statically to the class of layer i
next(s, i) ==
    Then(Enter(s, i), LAMBDA e :
        LET k == e.chain[i].kind
        IN CASE k = "seq" -> seq_iterator_next(e, i)
             [] k = "generate" -> generate_iterator_next(e, i)
             [] k = "range" -> range_iterator_next(e, i)
             [] k = "map" -> map_iterator_next(e, i)
             [] k = "filter" -> filter_iterator_next(e, i)
             [] k = "take" -> take_iterator_next(e, i)
             [] k = "take_while" -> take_while_iterator_next(e, i))

\* ------------------------------------------------------ iterator_wrapper
\* a chain method wraps a copy of the wrapped iterator in the decorator; it
\* runs constructors only
Wrapped(s, it) == [s EXCEPT !.chain = Append(@, it)]

wrapper_map(s, f) == Wrapped(s, map_iterator(f))

\* a filter() that looks for its first value when it is built
wrapper_filter_primed(s, p) ==
    LET w == Wrapped(s, filter_iterator(p)) IN next(w, Len(w.chain))

wrapper_filter(s, p) == Wrapped(s, filter_iterator(p))

wrapper_take(s, n) == Wrapped(s, take_iterator(n))

wrapper_take_while(s, p) == Wrapped(s, take_while_iterator(p))

from_generator(s, g) == Wrapped(s, generate_iterator(g))

range(s, begin, end, f) == Wrapped(s, range_iterator(begin, end, f))

\* a chain method that moves iterator_ out of its wrapper
OriginalMoved(c) == <<>>

\* iterator_ of the wrapper a chain method is called on: the method hands
\* iterator_ to the decorator's constructor by value, the member stays as it is
Original(c) == c

\* a base that would be held by reference: it is the base of the newer chain
KeptShared(o, c) == SubSeq(c, 1, Len(o))

\* BaseIterator base_: a decorator holds its own copy of its base, so what the
\* copy c does leaves the iterator o it was copied from as it is
Kept(o, c) == o

\* the program's state as the argument of the operators above
St == [chain |-> chain, log |-> log, r |-> <<>>, hung |-> FALSE]

\* scripts of a user-written base iterator, over an even and an odd element
Elems == {0, 1}
Opt == {<<>>} \cup {<<v>> : v \in Elems}
Scripts == UNION {[1 .. n -> Opt] : n \in 0 .. MaxLen}

Init ==
    /\ chain = <<>>
    /\ built = <<>>
    /\ pc = "build"
    /\ out = <<>>
    /\ delivered = <<>>
    /\ log = <<>>
    /\ orig = <<>>
    /\ oout = <<>>

Construct(s) ==
    /\ chain' = s.chain
    /\ built' = s.chain
    /\ log' = s.log
    /\ orig' = Original(chain)
    /\ UNCHANGED <<pc, out, oout, delivered>>

\* iterator_wrapper(Iterator) around a user-written iterator
Wrap ==
    /\ pc = "build" /\ chain = <<>>
    /\ \E items \in Scripts : Construct(Wrapped(St, seq_iterator(items)))

FromGenerator ==
    /\ pc = "build" /\ chain = <<>>
    /\ \E g \in GenFuncs : Construct(from_generator(St, g))

\* first values of the ranges
Begins == {0, 1}

\* range(begin, end)
Range2 ==
    /\ pc = "build" /\ chain = <<>>
    /\ \E b \in Begins \cup {Modulus - 1}, e \in Val :
          Construct(range(St, b, e, "inc"))

\* range(begin, end, next_func)
Range3 ==
    /\ pc = "build" /\ chain = <<>>
    /\ \E e \in Val, f \in StepFuncs : Construct(range(St, 0, e, f))

CanChain == pc = "build" /\ chain # <<>> /\ Len(chain) <= MaxDepth

Map == CanChain /\ \E f \in MapFuncs : Construct(wrapper_map(St, f))

Filter == CanChain /\ \E p \in Preds : Construct(wrapper_filter(St, p))

\* the counts given to take: none, one short of the longest script, and all
Takes == {0, MaxTake - 1, MaxTake}

Take == CanChain /\ \E n \in Takes : Construct(wrapper_take(St, n))

TakeWhile == CanChain /\ \E p \in Preds : Construct(wrapper_take_while(St, p))

\* a client calls next() on the outermost iterator
CallNext ==
    /\ pc \in {"build", "next"} /\ chain # <<>>
    /\ Len(out) < MaxCalls
    /\ \E v \in {next(St, Len(chain))} :
          /\ chain' = v.chain
          /\ log' = v.log
          /\ pc' = IF v.hung THEN "hung" ELSE "next"
          /\ out' = IF v.hung THEN out ELSE Append(out, v.r)
          /\ orig' = Kept(orig, v.chain)
    /\ UNCHANGED <<built, oout, delivered>>

each_calls_twice(d, r) == IF r # <<>> THEN d \o <<r[1], r[1]>> ELSE d

\* the body of the loop of each(f): f(*v), once, on a present v
each_calls(d, r) == IF r # <<>> THEN Append(d, r[1]) ELSE d

\* a loop that takes an empty answer for a value and goes on
each_never_stops(r) == TRUE

\* the condition of the loop of each(f): (v = iterator_.next()) is present
each_goes_on(r) == r # <<>>

\* one turn of the loop of each(f): v = iterator_.next(), then f(*v) or return
Each ==
    /\ pc \in {"build", "each"} /\ chain # <<>>
    /\ Len(out) < MaxEach
    /\ \E v \in {next(St, Len(chain))} :
          /\ chain' = v.chain
          /\ log' = v.log
          /\ pc' = IF v.hung THEN "stuck"
                   ELSE IF each_goes_on(v.r) THEN "each" ELSE "done"
          /\ out' = IF v.hung THEN out ELSE Append(out, v.r)
          /\ delivered' = IF v.hung THEN delivered
                          ELSE each_calls(delivered, v.r)
          /\ orig' = Kept(orig, v.chain)
    /\ UNCHANGED <<built, oout>>

\* after each() on the newest wrapper has returned, a client calls next() on
\* the iterator of the wrapper the last chain method was called on
OrigNext ==
    /\ pc \in {"done", "orig"} /\ orig # <<>>
    /\ Len(oout) < MaxOrig
    /\ \E v \in {next([St EXCEPT !.chain = orig, !.log = <<>>], Len(orig))} :
          /\ orig' = v.chain
          /\ pc' = IF v.hung THEN "ohung" ELSE "orig"
          /\ oout' = IF v.hung THEN oout ELSE Append(oout, v.r)
    /\ UNCHANGED <<chain, built, out, delivered, log>>

Next ==
    \/ Wrap
    \/ FromGenerator
    \/ Range2
    \/ Range3
    \/ Map
    \/ Filter
    \/ Take
    \/ TakeWhile
    \/ CallNext
    \/ Each
    \/ OrigNext

Spec == Init /\ [][Next]_vars

\* each() is a loop of the one thread there is: it keeps running
FairSpec == Spec /\ WF_vars(Each)

\* the chains built on from_generator, with each() running on
GenerateNext ==
    \/ FromGenerator
    \/ Map
    \/ Filter
    \/ Take
    \/ TakeWhile
    \/ CallNext
    \/ Each

GenerateSpec == Init /\ [][GenerateNext]_vars /\ WF_vars(Each)

\* ------------------------------------------------------------- readings
Top == Len(chain)

Shape(ks) ==
    /\ Len(chain) = Len(ks)
    /\ \A i \in 1 .. Len(ks) : chain[i].kind = ks[i]

\* the values of a sequence of optionals, in order
RECURSIVE Present(_)
Present(o) == IF o = <<>> THEN <<>> ELSE Head(o) \o Present(Tail(o))

IsPrefix(a, b) == Len(a) <= Len(b) /\ a = SubSeq(b, 1, Len(a))

Min(a, b) == IF a < b THEN a ELSE b

HasEmpty(o) == \E k \in 1 .. Len(o) : o[k] = <<>>

\* the events of one kind on one layer, and how many next() calls a layer got
Events(e, i) == SelectSeq(log, LAMBDA x : x.ev = e /\ x.at = i)

Pulls(i) == Len(Events("next", i))

\* the arguments a layer's one-argument callable (transform, predicate, step)
\* was invoked with, in order
Args(i) == LET es == Events("fn", i) IN [k \in 1 .. Len(es) |-> es[k].arg[1]]

\* a base that is a sequence S in the usual sense: a script with no empty
\* answer before its end, or a range(begin, end) with begin <= end
Proper(src) ==
    \/ src.kind = "seq" /\ ~HasEmpty(src.items)
    \/ src.kind = "range" /\ src.fn = "inc" /\ src.actual <= src.last

\* the elements of S
Elements(src) ==
    IF src.kind = "seq" THEN Present(src.items)
    ELSE [k \in 1 .. (src.last - src.actual) |-> src.actual + k - 1]

Filtered(S, p) == SelectSeq(S, LAMBDA v : test_func(p, v))

\* the index of the first element of S that fails p, Len(S) + 1 when none does
FirstFailing(S, p) ==
    IF \E k \in 1 .. Len(S) : ~test_func(p, S[k])
    THEN CHOOSE k \in 1 .. Len(S) :
            /\ ~test_func(p, S[k])
            /\ \A j \in 1 .. (k - 1) : test_func(p, S[j])
    ELSE Len(S) + 1

\* ------------------------------------------------------------------ C1
\* C1: filter(p) over a finite sequence S, pulled until it returns empty,
\* yields exactly the elements of S that satisfy p, in the order of S, each
\* once; until then it has yielded a prefix of them.
FilterYieldsSubsequence ==
    (Len(chain) = 2 /\ chain[2].kind = "filter" /\ Proper(built[1])) =>
        LET F == Filtered(Elements(built[1]), built[2].fn) IN
        /\ IsPrefix(Present(out), F)
        /\ HasEmpty(out) => Present(out) = F

FilterWitness ==
    /\ Shape(<<"seq", "filter">>) /\ Proper(built[1])
    /\ HasEmpty(out)
    /\ Len(Present(out)) = 2
    /\ Len(built[1].items) = 3
    /\ built[1].items[2] # out[2]

\* ------------------------------------------------------------------ C2
\* C2: take(n) calls next() on its base at most n times over any number of
\* calls (as often as its count went down), every call after the n-th returns
\* empty, and what it yields is a prefix of the base's elements of at most
\* min(n, |S|) elements.
TakeBounded ==
    (Len(chain) >= 2 /\ chain[Top].kind = "take") =>
        LET n == built[Top].num IN
        /\ Pulls(Top - 1) = n - chain[Top].num
        /\ Pulls(Top - 1) <= n
        /\ \A k \in 1 .. Len(out) : k > n => out[k] = <<>>
        /\ Len(Present(out)) <= n
        /\ (Len(chain) = 2 /\ built[1].kind = "seq") =>
              /\ IsPrefix(Present(out), Present(built[1].items))
              /\ Len(Present(out)) <= Min(n, Len(Present(built[1].items)))
        /\ (Len(chain) = 2 /\ Proper(built[1])) =>
              /\ IsPrefix(Present(out), Elements(built[1]))
              /\ Len(Present(out)) <= Min(n, Len(Elements(built[1])))

TakeWitness ==
    /\ Shape(<<"seq", "take">>)
    /\ Len(built[1].items) = 3 /\ built[2].num = 2
    /\ Len(out) = 4 /\ Len(Present(out)) = 2
    /\ chain[1].pos = 2

\* ------------------------------------------------------------------ C3
\* C3: take_while(p) over a sequence S yields exactly the longest prefix of S
\* whose elements all satisfy p; the first element failing p is pulled, given
\* to p and discarded, and the base is never pulled past it.
TakeWhileMaxPrefix ==
    (Len(chain) = 2 /\ chain[2].kind = "take_while" /\ Proper(built[1])) =>
        LET S == Elements(built[1])
            j == FirstFailing(S, built[2].fn)
            P == SubSeq(S, 1, j - 1)
        IN /\ IsPrefix(Present(out), P)
           /\ HasEmpty(out) => Present(out) = P
           /\ Pulls(1) <= j
           /\ (HasEmpty(out) /\ j <= Len(S)) =>
                 /\ Pulls(1) = j
                 /\ Args(2) = SubSeq(S, 1, j)

TakeWhileWitness ==
    /\ Shape(<<"seq", "take_while">>)
    /\ built[1].items = <<<<0>>, <<1>>, <<0>>>> /\ built[2].fn = "is_even"
    /\ out = <<<<0>>, <<>>, <<>>>>
    /\ chain[1].pos = 2

\* ------------------------------------------------------------------ C4
\* the events after the first occurrence of event e (none when e is not there)
After(es, e) ==
    IF \E k \in 1 .. Len(es) : es[k] = e
    THEN LET first == CHOOSE k \in 1 .. Len(es) :
                         /\ es[k] = e
                         /\ \A j \in 1 .. (k - 1) : es[j] # e
         IN SubSeq(es, first + 1, Len(es))
    ELSE <<>>

TakeWhileEndedInv ==
    (Len(chain) >= 2 /\ chain[Top].kind = "take_while") =>
        /\ HasEmpty(out) => chain[Top].ended
        /\ \A j, k \in 1 .. Len(out) : (j < k /\ out[j] = <<>>) => out[k] = <<>>
        /\ LET rest == After(log, Ev("ret", Top, <<>>)) IN
           \A k \in 1 .. Len(rest) :
              rest[k] \in {Ev("next", Top, <<>>), Ev("ret", Top, <<>>)}

EndedStays ==
    \A i \in 1 .. Len(chain) :
        (chain[i].kind = "take_while" /\ chain[i].ended) => chain'[i].ended

\* C4: once a take_while has returned empty its ended flag is set and stays
\* set, and every later next() returns empty without a call to the base's
\* next() and without a call to the predicate.
TakeWhileSticky == []TakeWhileEndedInv /\ [][EndedStays]_vars

TakeWhileStickyWitness ==
    /\ Shape(<<"seq", "take_while">>)
    /\ Len(out) = 3 /\ out[2] = <<>> /\ out[3] = <<>>
    /\ chain[2].ended
    /\ built[1].items = <<<<0>>, <<1>>, <<0>>>> /\ built[2].fn = "is_even"
    /\ chain[1].pos = 2

\* ------------------------------------------------------------------ C5
\* C5: once a take(n) has returned empty, every later next() on it returns
\* empty, whatever its base does.
TakeSticky ==
    (Len(chain) >= 2 /\ chain[Top].kind = "take") =>
        \A j, k \in 1 .. Len(out) : (j < k /\ out[j] = <<>>) => out[k] = <<>>

\* ------------------------------------------------------------------ C6
\* C6: the k-th next() on map(f) over a sequence S returns f of the k-th
\* element of S, and empty past the end of S; f has been invoked on exactly
\* the elements returned so far, once each and in order, each time right
\* before the next() that returns f's result.
MapElementwise ==
    (Len(chain) = 2 /\ chain[2].kind = "map" /\ Proper(built[1])) =>
        LET S == Elements(built[1])
            f == built[2].fn
        IN /\ \A j \in 1 .. Len(out) :
                 out[j] = IF j <= Len(S) THEN <<map_func(f, S[j])>> ELSE <<>>
           /\ Args(2) = SubSeq(S, 1, Min(Len(out), Len(S)))
           /\ Len(Args(2)) <= Len(out)
           /\ \A x \in 1 .. Len(log) :
                 (log[x].ev = "fn" /\ log[x].at = 2) =>
                    /\ x < Len(log)
                    /\ log[x + 1] = Ev("ret", 2, <<map_func(f, log[x].arg[1])>>)

MapWitness ==
    /\ Shape(<<"seq", "map">>) /\ Proper(built[1])
    /\ built[1].items = <<<<0>>, <<1>>, <<1>>>> /\ built[2].fn = "inc"
    /\ out = <<<<1>>, <<2>>, <<2>>, <<>>>>

\* ------------------------------------------------------------------ C7
\* C7: range(begin, end) with begin <= end, consumed by each, gives the
\* callback begin, begin + 1, ..., end - 1 in order and nothing else: every
\* value is the position before its increment, and the position has advanced
\* by one per value.
RangeCounts ==
    (Shape(<<"range">>) /\ built[1].fn = "inc"
       /\ built[1].actual <= built[1].last /\ pc \in {"each", "done"}) =>
        LET b == built[1].actual
            e == built[1].last
        IN /\ delivered = [k \in 1 .. Len(delivered) |-> b + k - 1]
           /\ Len(delivered) <= e - b
           /\ chain[1].actual = b + Len(delivered)
           /\ Args(1) = delivered
           /\ pc = "done" => Len(delivered) = e - b

RangeWitness ==
    /\ Shape(<<"range">>) /\ built[1].fn = "inc"
    /\ built[1].actual = 0 /\ built[1].last = 5
    /\ pc = "done" /\ delivered = <<0, 1, 2, 3, 4>>

RangeEmptyWitness ==
    /\ Shape(<<"range">>) /\ built[1].fn = "inc"
    /\ built[1].actual = 1 /\ built[1].last = 1
    /\ pc = "done" /\ delivered = <<>>

\* ------------------------------------------------------------------ C8
GenerateInv ==
    /\ Shape(<<"generate">>) =>
          /\ ~HasEmpty(out)
          /\ Len(Events("fn", 1)) = Len(out)
          /\ built[1].fn = "one" => \A k \in 1 .. Len(out) : out[k] = <<1>>
          /\ built[1].fn = "counter" =>
                \A k \in 1 .. Len(out) : out[k] = <<(k - 1) % Modulus>>
    /\ (Shape(<<"generate", "take">>) /\ pc \in {"each", "done"}) =>
          /\ Len(delivered) <= built[2].num
          /\ Len(Events("fn", 1)) = Len(delivered)
          /\ built[1].fn = "one" =>
                \A k \in 1 .. Len(delivered) : delivered[k] = 1
          /\ pc = "done" => Len(delivered) = built[2].num

GenerateTakeRunning == Shape(<<"generate", "take">>) /\ pc = "each"

\* C8: next() on a generate sequence never returns empty, each call invokes
\* the generator once and returns its result; from_generator(g).take(n)
\* consumed by each gives the callback n values (1,1,1 for the constant 1 and
\* n = 3) with g invoked n times, and each returns.
GenerateTake == []GenerateInv /\ (GenerateTakeRunning ~> pc = "done")

GenerateWitness ==
    /\ Shape(<<"generate", "take">>)
    /\ built[1].fn = "one" /\ built[2].num = 3
    /\ pc = "done" /\ delivered = <<1, 1, 1>>
    /\ Len(Events("fn", 1)) = 3

\* ------------------------------------------------------------------ C9
\* the index in S of its n-th element satisfying p (n >= 1, and there is one)
MatchIndex(S, p, n) ==
    CHOOSE k \in 1 .. Len(S) :
        /\ test_func(p, S[k])
        /\ Len(Filtered(SubSeq(S, 1, k), p)) = n

\* C9: S.filter(p).take(n) yields the first min(n, matches) elements of S
\* that satisfy p, in order, and once the n-th value is returned the source
\* is not pulled again: it has been pulled up to the n-th match and no more.
FilterThenTake ==
    (Len(chain) = 3 /\ chain[2].kind = "filter" /\ chain[3].kind = "take"
       /\ Proper(built[1])) =>
        LET S == Elements(built[1])
            p == built[2].fn
            n == built[3].num
            F == Filtered(S, p)
            want == SubSeq(F, 1, Min(n, Len(F)))
        IN /\ IsPrefix(Present(out), want)
           /\ HasEmpty(out) => Present(out) = want
           /\ n = 0 => Pulls(1) = 0
           /\ (n > 0 /\ Len(Present(out)) = n) => Pulls(1) = MatchIndex(S, p, n)

FilterThenTakeWitness ==
    /\ Shape(<<"range", "filter", "take">>)
    /\ built[1].fn = "inc" /\ built[1].actual = 0 /\ built[1].last = 7
    /\ built[2].fn = "is_even" /\ built[3].num = 2
    /\ out = <<<<0>>, <<2>>, <<>>, <<>>>>
    /\ chain[1].actual = 3

\* ----------------------------------------------------------------- C10
\* C10: while a chain is being built (entry points and chain methods, in any
\* order) no user callable has been invoked and no next() has been called on
\* any iterator.
BuildingEvaluatesNothing == pc = "build" => log = <<>>

BuildingWitness ==
    /\ pc = "build"
    /\ Shape(<<"range", "map", "filter">>)

\* ----------------------------------------------------------------- C11
EachRan == pc \in {"each", "done", "stuck", "orig", "ohung"}

EachReturned == pc \in {"done", "orig", "ohung"}

\* how far a producer is from its end: the elements it still gives
Distance(src) == (src.last - src.actual + Modulus) % Modulus

Finite(src) ==
    \/ src.kind = "seq"
    \/ src.kind = "range" /\ src.fn = "inc"
    \/ src.kind = "range" /\ src.fn = "by2" /\ Distance(src) % 2 = 0
    \/ src.kind = "range" /\ src.fn = "stay" /\ Distance(src) = 0

Remaining(src) ==
    IF src.kind = "seq" THEN Len(src.items) - src.pos
    ELSE IF src.fn = "by2" THEN Distance(src) \div 2
    ELSE Distance(src)

HasKind(k) == \E i \in 1 .. Len(chain) : chain[i].kind = k

\* each() delivers what next() returns, value for value, and returns at the
\* first empty
EachDelivers ==
    EachRan =>
        /\ delivered = Present(out)
        /\ pc \in {"each", "stuck"} => ~HasEmpty(out)
        /\ EachReturned =>
              /\ Len(out) = Len(delivered) + 1
              /\ out[Len(out)] = <<>>

\* the next turn of the loop is taken: nothing but the loop's own end stops it
EachGoesOn ==
    (pc = "each" /\ (Finite(chain[1]) \/ chain[Top].kind = "take")
       /\ (Finite(chain[1]) \/ ~HasKind("filter"))) =>
        Len(out) < MaxEach

\* every turn of the loop returns from each() or uses up an element of a
\* finite producer or one of the count of the take
EachAdvances ==
    (pc = "each" /\ out' # out) =>
        /\ Finite(chain[1]) =>
              pc' = "done" \/ Remaining(chain'[1]) < Remaining(chain[1])
        /\ (chain[Top].kind = "take" /\ ~HasKind("filter")) =>
              pc' = "done" \/ chain'[Top].num < chain[Top].num

\* C11 (as amended): each(f) gives f every value next() returns, once and in
\* order, and returns at the first empty; it terminates when the innermost
\* producer is finite or when the wrapped sequence is a take(n) over a chain
\* without a filter: every turn is taken, stays out of an endless call, and
\* uses up an element of the producer or one of take's count.
EachTerminates ==
    /\ []EachDelivers
    /\ [](EachGoesOn /\ (pc = "stuck" => ~Finite(chain[1])))
    /\ [](pc = "stuck" => (chain[Top].kind = "take" => HasKind("filter")))
    /\ [][EachAdvances]_vars

EachWitness ==
    /\ Shape(<<"seq", "filter", "take">>)
    /\ built[1].items = <<<<1>>, <<0>>, <<0>>>> /\ built[2].fn = "is_even"
    /\ built[3].num = 3
    /\ pc = "done" /\ delivered = <<0, 0>>

\* C11 (as stated): each(f) gives f every value next() returns and returns
\* at the first empty, and it terminates whenever the wrapped sequence is
\* finite or bounded by a take or a take_while: no turn of its loop is an
\* endless call.
EachTerminatesWhenBounded ==
    /\ EachDelivers
    /\ (chain # <<>> /\ chain[Top].kind \in {"take", "take_while"}) =>
          pc # "stuck"

\* ----------------------------------------------------------------- C12
\* a chain method was called on a wrapper
Chained == Len(built) >= 2

\* what a wrapper over S answers to its k-th next()
Answer(S, k) == IF k <= Len(S) THEN <<S[k]>> ELSE <<>>

Calls == built' = built

CopyUntouched ==
    /\ (Calls /\ chain' # chain) => orig' = orig
    /\ (Calls /\ orig' # orig) => chain' = chain /\ out' = out

\* C13: copies have independent iteration state: the iterator a chain method
\* copied into the new wrapper and the one left in the original wrapper do
\* not share position, remaining count or ended flag; a next() or each on
\* either leaves every field of the other unchanged.
CopiesIndependent == [][CopyUntouched]_vars

CopiesWitness ==
    /\ Shape(<<"seq", "take", "take_while">>)
    /\ pc = "done" /\ Len(out) = 3
    /\ chain[1].pos = 3 /\ chain[2].num = 0 /\ chain[3].ended
    /\ orig = SubSeq(built, 1, 2)
    /\ orig[1].pos = 0 /\ orig[2].num = 3

\* ----------------------------------------------------------------- C14
Layers(ks) == {i \in 2 .. Len(chain) : chain[i].kind \in ks}

\* log[k] is an event of a map or a filter
OfMapOrFilter(k) ==
    log[k].at > 1 /\ chain[log[k].at].kind \in {"map", "filter"}

\* the empty return at log[k] follows at once on an empty return of the
\* base, made within the same call
EmptyFromBase(k) ==
    (log[k].ev = "ret" /\ log[k].arg = <<>>) =>
        /\ k > 1
        /\ log[k - 1].ev = "ret" /\ log[k - 1].arg = <<>>
        /\ log[k - 1].at = log[k].at - 1

\* the call at log[k] calls the base at once
PullsBase(k) ==
    log[k].ev = "next" =>
        /\ k < Len(log)
        /\ log[k + 1].ev = "next" /\ log[k + 1].at = log[k].at - 1

\* C14: map and filter never introduce exhaustion: a next() on a map or a
\* filter returns empty only when the last call it made on its base, in that
\* same call, returned empty; map calls its base exactly once per next().
NoExhaustionIntroduced ==
    /\ \A k \in 1 .. Len(log) :
          OfMapOrFilter(k) => EmptyFromBase(k) /\ PullsBase(k)
    /\ \A i \in Layers({"map"}) : Pulls(i - 1) = Pulls(i)

NoExhaustionWitness ==
    /\ Shape(<<"seq", "filter", "map">>)
    /\ built[1].items = <<<<1>>, <<0>>, <<1>>>>
    /\ built[2].fn = "is_even" /\ built[3].fn = "inc"
    /\ out = <<<<1>>, <<>>>>
    /\ Pulls(1) = 4 /\ Pulls(2) = 2 /\ Pulls(3) = 2

\* ----------------------------------------------------------------- C15
\* the producer's events lie together in the log, call by call: the producer
\* calls nothing that is logged

\* es[k] is an empty return of the producer
EmptyReturn(es, k) == es[k].at = 1 /\ es[k].ev = "ret" /\ es[k].arg = <<>>

\* the index in es of the producer's first empty return, Len(es) + 1 when it
\* has made none
FirstEmpty(es) ==
    IF \E k \in 1 .. Len(es) : EmptyReturn(es, k)
    THEN CHOOSE k \in 1 .. Len(es) :
            EmptyReturn(es, k) /\ \A j \in 1 .. (k - 1) : ~EmptyReturn(es, j)
    ELSE Len(es) + 1

\* after the first empty return: no step, no value, is_last asked on the end
StaysExhausted(es) ==
    \A k \in (FirstEmpty(es) + 1) .. Len(es) :
        es[k].at = 1 =>
            /\ es[k].ev # "fn"
            /\ es[k].ev = "ret" => es[k].arg = <<>>
            /\ es[k].ev = "last" => es[k].arg[1] = built[1].last

\* is_last asked on a position that is not the end: one step, its result
\* returned; and no step is made but after such a question
StepsOnce(es) ==
    \A k \in 1 .. Len(es) :
        es[k].at = 1 =>
            /\ (es[k].ev = "last" /\ es[k].arg[1] # built[1].last) =>
                  /\ k + 2 <= Len(es)
                  /\ es[k + 1].at = 1 /\ es[k + 1].ev = "fn"
                  /\ es[k + 1].arg = es[k].arg
                  /\ es[k + 2].at = 1 /\ es[k + 2].ev = "ret"
                  /\ es[k + 2].arg =
                        <<func_next(built[1].fn, es[k].arg[1]).val>>
            /\ es[k].ev = "fn" =>
                  /\ k > 1
                  /\ es[k - 1].at = 1 /\ es[k - 1].ev = "last"
                  /\ es[k - 1].arg = es[k].arg
                  /\ es[k].arg[1] # built[1].last

\* C15: a range with the pure is_last of range(begin, end, ...) stays
\* exhausted: after its first empty return every next() returns empty without
\* invoking the step function and the stored position stays at the end;
\* while is_last does not hold, next() invokes the step function exactly once
\* and returns its result.
RangeSticky ==
    (chain # <<>> /\ chain[1].kind = "range") =>
        /\ StaysExhausted(log)
        /\ FirstEmpty(log) <= Len(log) =>
              chain[1].actual = built[1].last
        /\ StepsOnce(log)

RangeStickyWitness ==
    /\ Shape(<<"range">>) /\ built[1].fn = "by2"
    /\ built[1].actual = 0 /\ built[1].last = 2
    /\ out = <<<<0>>, <<>>, <<>>, <<>>>>

\* ----------------------------------------------------------------- C16
PullsIn(l, i) == Len(SelectSeq(l, LAMBDA x : x.ev = "next" /\ x.at = i))

Unreturned == pc \in {"hung", "stuck"}

\* one next() on the chain: every filter in it calls its base at least once
\* for each call it gets and at most once more than the producer has left
FilterPullsBounded ==
    (log' # log /\ Finite(chain[1])) =>
        \A i \in Layers({"filter"}) :
            LET calls == PullsIn(log', i) - PullsIn(log, i)
                inner == PullsIn(log', i - 1) - PullsIn(log, i - 1)
            IN /\ calls <= inner
               /\ calls = 1 => inner <= Remaining(chain[1]) + 1

\* C16 (as amended): a next() call on a filter terminates when its base comes
\* to an empty answer or to a value that passes, as every chain over a finite
\* producer does; the calls it then makes on its base are at most the number
\* of elements the producer can still give, plus one.
FilterTerminates ==
    /\ [](Unreturned => ~Finite(chain[1]))
    /\ [][FilterPullsBounded]_vars

FilterTerminatesWitness ==
    /\ Shape(<<"seq", "filter">>)
    /\ built[1].items = <<<<1>>, <<1>>, <<1>>>> /\ built[2].fn = "is_even"
    /\ out = <<<<>>>> /\ Pulls(2) = 1 /\ Pulls(1) = 4

\* C16 (as stated): every single next() call on a filter terminates.
FilterAlwaysReturns == HasKind("filter") => ~Unreturned

\* ----------------------------------------------------------------- C17
TestsIn(l, i) == Len(SelectSeq(l, LAMBDA x : x.ev = "fn" /\ x.at = i))

\* one next() on a take_while: one call on the base when active, none when
\* ended, and at most one test
TakeWhilePullsOnce ==
    log' # log =>
        \A i \in Layers({"take_while"}) :
            (PullsIn(log', i) - PullsIn(log, i) = 1) =>
                /\ PullsIn(log', i - 1) - PullsIn(log, i - 1)
                      = IF chain[i].ended THEN 0 ELSE 1
                /\ TestsIn(log', i) - TestsIn(log, i) <= 1

\* the predicate is given the value the base has just returned
TestsPresent ==
    \A i \in Layers({"take_while"}) : \A k \in 1 .. Len(log) :
        (log[k].ev = "fn" /\ log[k].at = i) =>
            /\ log[k].arg # <<>>
            /\ k > 1 /\ log[k - 1] = Ev("ret", i - 1, log[k].arg)

\* C17: a next() on an active take_while makes exactly one next() call on
\* its base and invokes the predicate at most once, on the present value the
\* base returned and never on an absent one; it does not loop over several
\* base values in one call.
TakeWhileOnePull == []TestsPresent /\ [][TakeWhilePullsOnce]_vars

TakeWhileOnePullWitness ==
    /\ Shape(<<"seq", "take_while">>)
    /\ built[1].items = <<<<0>>, <<1>>, <<0>>>> /\ built[2].fn = "is_even"
    /\ out = <<<<0>>, <<>>, <<>>>>
    /\ Pulls(1) = 2 /\ TestsIn(log, 2) = 2

\* ----------------------------------------------------------------- C18
\* the index of the first empty answer of a script, Len + 1 when none
FirstGap(items) ==
    IF HasEmpty(items)
    THEN CHOOSE k \in 1 .. Len(items) :
            items[k] = <<>> /\ ~HasEmpty(SubSeq(items, 1, k - 1))
    ELSE Len(items) + 1

EachCounts ==
    /\ pc = "each" => Pulls(Top) = Len(delivered) /\ ~HasEmpty(out)
    /\ EachReturned =>
          /\ Pulls(Top) = Len(delivered) + 1
          /\ Shape(<<"seq">>) =>
                /\ delivered =
                      Present(SubSeq(built[1].items, 1,
                                     FirstGap(built[1].items) - 1))
                /\ chain[1].pos = Min(Len(delivered) + 1, Len(built[1].items))
          /\ Shape(<<"generate", "take_while">>) =>
                Len(Events("fn", 1)) = Len(delivered) + 1

\* once each() has returned the wrapped sequence is not called again
EachIsOver ==
    EachReturned =>
        log' = log /\ out' = out /\ delivered' = delivered /\ chain' = chain

\* C18: each stops at the first empty result and pulls exactly once more
\* than it delivers: k callbacks, k + 1 calls of next(), none after the first
\* empty, so what a sequence would give after a passing empty is never
\* delivered; from_generator(g).take_while(p).each(f) invokes g k + 1 times.
EachPullsOnceMore == []EachCounts /\ [][EachIsOver]_vars

EachPullsWitness ==
    /\ Shape(<<"seq">>)
    /\ built[1].items = <<<<0>>, <<>>, <<1>>>>
    /\ pc = "done" /\ delivered = <<0>> /\ Pulls(1) = 2

EachGeneratorWitness ==
    /\ Shape(<<"generate", "take_while">>) /\ built[1].fn = "counter"
    /\ pc = "done" /\ Len(delivered) >= 2
    /\ Len(Events("fn", 1)) = Len(delivered) + 1

\* ----------------------------------------------------------------- C19
\* C19: on a Width-bit unsigned type range(begin, end) with begin > end is
\* not empty: the position wraps modulo 2^Width, the range gives begin, ...,
\* 2^Width - 1, 0, ..., end - 1, that is (end - begin) mod 2^Width elements,
\* and only then returns empty.
RangeWraps ==
    (Shape(<<"range">>) /\ built[1].fn = "inc"
       /\ built[1].actual > built[1].last) =>
        LET b == built[1].actual
            e == built[1].last
            n == (e - b + Modulus) % Modulus
            v == Present(out)
        IN /\ n = Modulus - b + e
           /\ v = [k \in 1 .. Len(v) |-> (b + k - 1) % Modulus]
           /\ Len(v) <= n
           /\ HasEmpty(out) => Len(v) = n /\ out[n + 1] = <<>>
           /\ pc \in {"each", "done"} => delivered = v
           /\ pc = "each" => Len(out) < MaxEach

RangeWrapsWitness ==
    /\ Shape(<<"range">>) /\ built[1].fn = "inc"
    /\ built[1].actual = Modulus - 1 /\ built[1].last = 2
    /\ pc = "done" /\ delivered = <<Modulus - 1, 0, 1>>

\* ----------------------------------------------------------------- C20
\* a step function whose positions never are the end
NeverHits(src) ==
    /\ src.kind = "range"
    /\ \/ src.fn = "by2" /\ Distance(src) % 2 = 1
       \/ src.fn = "stay" /\ src.actual # src.last

\* an empty return of the producer answers is_last asked on the end itself
EmptyAtEnd(es) ==
    \A k \in 1 .. Len(es) :
        EmptyReturn(es, k) =>
            /\ k > 1
            /\ es[k - 1].at = 1 /\ es[k - 1].ev = "last"
            /\ es[k - 1].arg[1] = built[1].last

\* C20: range(begin, end, step) returns empty only when its stored position
\* equals end exactly; when the step function's positions never hit end (by
\* 2 from 0 with end 5, or a step that leaves the position) next() never
\* returns empty, and each on it delivers without end.
RangeExhaustsAtEnd ==
    (chain # <<>> /\ chain[1].kind = "range") =>
        /\ EmptyAtEnd(log)
        /\ NeverHits(built[1]) =>
              /\ FirstEmpty(log) > Len(log)
              /\ chain[1].actual # chain[1].last
              /\ Shape(<<"range">>) =>
                    /\ ~HasEmpty(out)
                    /\ pc \notin {"done", "stuck", "hung"}
                    /\ pc = "each" => Len(delivered) = Len(out)

RangeNeverEndsWitness ==
    /\ Shape(<<"range">>) /\ built[1].fn = "by2"
    /\ built[1].actual = 0 /\ built[1].last = 5
    /\ pc = "each" /\ Len(delivered) = MaxEach
    /\ delivered[Modulus \div 2 + 1] = 0

====
